---- MODULE Spec2Model ----
(***************************************************************************)
(* Model of ai-generate-commit: the configuration store                    *)
(* (internal/config), the version-control adapter (internal/git), the      *)
(* completion client (internal/groq), the commit message service           *)
(* (internal/service) and the command-line entry point (cmd).              *)
(*                                                                         *)
(* Strings are sequences of characters.  A character is one of             *)
(*   "a"      an ordinary ASCII character,                                 *)
(*   "xFF"    a byte that is not valid UTF-8 (Go strings are byte strings),*)
(*   "uFFFD"  the rune U+FFFD (the Unicode replacement character).         *)
(* The text of a JSON string literal is a sequence of tokens               *)
(*   "a", "uFFFD" (the characters written as they are),                    *)
(*   "\\ufffd" (the six-character escape encoding/json writes for a byte   *)
(*   that is not valid UTF-8), and "xFF" (a raw invalid byte, which only   *)
(*   a file written by something else can hold).                           *)
(***************************************************************************)
EXTENDS Integers, Sequences, FiniteSets, TLC

\* ------------------------------------------------------------------ bounds
MaxValLen == 2
MaxChanges == 2
MaxInvalidAnswers == 2
\* Requests one call of http.Client.Do sends before it gives up following
\* redirects (10 in net/http).
MaxRequests == 2
\* Lines in the output of one git command handed to a parser on its own.
MaxLines == 2

\* ------------------------------------------------------------- strings
EmptyString == <<>>

InChars == {"a", "xFF"}

RECURSIVE SeqsUpTo(_, _)
SeqsUpTo(S, n) ==
    IF n = 0 THEN {<<>>}
    ELSE LET shorter == SeqsUpTo(S, n - 1)
         IN  shorter \cup {Append(s, c) : s \in shorter, c \in S}

\* The strings a command line can carry as a flag value.
ArgValues == SeqsUpTo(InChars, MaxValLen)

\* encoding/json, Marshal of one character of a string: a byte that is not
\* valid UTF-8 is written as the escape of U+FFFD, everything else as it is.
MarshalChar(c) == IF c = "xFF" THEN "\\ufffd" ELSE c

\* encoding/json, Unmarshal of one token of a string literal: an escape is
\* decoded, a raw invalid byte is replaced by U+FFFD.
UnmarshalToken(t) == IF t \in {"\\ufffd", "xFF"} THEN "uFFFD" ELSE t

MarshalString(s) == [i \in 1..Len(s) |-> MarshalChar(s[i])]

UnmarshalString(t) == [i \in 1..Len(t) |-> UnmarshalToken(t[i])]

\* ------------------------------------------------------ configuration store
\* type Config struct { GROQAPIKey; CommitPrompt }, and its zero value.
Config(apiKey, prompt) == [GROQ_APIKEY |-> apiKey, COMMIT_PROMPT |-> prompt]

ZeroConfig == Config(EmptyString, EmptyString)

RecognizedKeys == {"GROQ_APIKEY", "COMMIT_PROMPT"}

\* Errors, named by the message the code wraps them in.
ErrNone == "nil"
ErrRead == "failed to read config file"
ErrParse == "failed to parse config file"
ErrWrite == "failed to write config file"
ErrUnknownKey == "unknown config key"

\* The configuration file <home>/.ai-commit as the file system holds it.
\* json is the text of the two string literals when the content parses.
AbsentFile ==
    [exists |-> FALSE, mode |-> "none", wellFormed |-> FALSE, json |-> ZeroConfig]

FileOf(mode, wellFormed, json) ==
    [exists |-> TRUE, mode |-> mode, wellFormed |-> wellFormed, json |-> json]

Readable(f) == f.mode \in {"0400", "0600", "0644"}

Writable(f) == f.mode \in {"0600", "0644"}

\* loadConfig with a parse failure taken for an empty configuration.
loadConfig_ResetsCorrupt(f) ==
    IF ~f.exists \/ (Readable(f) /\ ~f.wellFormed)
    THEN [err |-> ErrNone, config |-> ZeroConfig]
    ELSE IF ~Readable(f) THEN [err |-> ErrRead, config |-> ZeroConfig]
    ELSE [err |-> ErrNone,
          config |-> Config(UnmarshalString(f.json.GROQ_APIKEY),
                            UnmarshalString(f.json.COMMIT_PROMPT))]

\* loadConfig without the os.IsNotExist branch.
loadConfig_MissingIsError(f) ==
    IF ~f.exists \/ ~Readable(f) THEN [err |-> ErrRead, config |-> ZeroConfig]
    ELSE IF ~f.wellFormed THEN [err |-> ErrParse, config |-> ZeroConfig]
    ELSE [err |-> ErrNone,
          config |-> Config(UnmarshalString(f.json.GROQ_APIKEY),
                            UnmarshalString(f.json.COMMIT_PROMPT))]

\* loadConfig: a missing file is the zero Config, a file that cannot be read
\* or parsed is an error.
loadConfig(f) ==
    IF ~f.exists THEN [err |-> ErrNone, config |-> ZeroConfig]
    ELSE IF ~Readable(f) THEN [err |-> ErrRead, config |-> ZeroConfig]
    ELSE IF ~f.wellFormed THEN [err |-> ErrParse, config |-> ZeroConfig]
    ELSE [err |-> ErrNone,
          config |-> Config(UnmarshalString(f.json.GROQ_APIKEY),
                            UnmarshalString(f.json.COMMIT_PROMPT))]

\* os.WriteFile(name, data, perm): creates the file with perm when it does
\* not exist, otherwise truncates it without changing its permissions.
WriteFile(f, json, perm) ==
    IF ~f.exists THEN [err |-> ErrNone, file |-> FileOf(perm, TRUE, json)]
    ELSE IF ~Writable(f) THEN [err |-> ErrWrite, file |-> f]
    ELSE [err |-> ErrNone, file |-> FileOf(f.mode, TRUE, json)]

\* saveConfig: json.MarshalIndent, then os.WriteFile(configFilePath, data, 0o600).
saveConfig(f, config) ==
    WriteFile(f,
              Config(MarshalString(config.GROQ_APIKEY),
                     MarshalString(config.COMMIT_PROMPT)),
              "0600")

\* SetConfig that fills a fresh Config instead of the loaded one.
SetConfig_DropsOtherKey(f, key, value) ==
    LET loaded == loadConfig(f) IN
    IF loaded.err # ErrNone THEN [err |-> loaded.err, file |-> f]
    ELSE IF key \notin RecognizedKeys THEN [err |-> ErrUnknownKey, file |-> f]
    ELSE saveConfig(f, [ZeroConfig EXCEPT ![key] = value])

\* SetConfig whose switch has no default branch.
SetConfig_SavesUnknownKey(f, key, value) ==
    LET loaded == loadConfig(f) IN
    IF loaded.err # ErrNone THEN [err |-> loaded.err, file |-> f]
    ELSE IF key \notin RecognizedKeys THEN saveConfig(f, loaded.config)
    ELSE saveConfig(f, [loaded.config EXCEPT ![key] = value])

\* SetConfig(key, value): load, change one field, save.
SetConfig(f, key, value) ==
    LET loaded == loadConfig(f) IN
    IF loaded.err # ErrNone THEN [err |-> loaded.err, file |-> f]
    ELSE IF key \notin RecognizedKeys THEN [err |-> ErrUnknownKey, file |-> f]
    ELSE saveConfig(f, [loaded.config EXCEPT ![key] = value])

\* GetConfig(key): load, return one field.
GetConfig(f, key) ==
    LET loaded == loadConfig(f) IN
    IF loaded.err # ErrNone THEN [err |-> loaded.err, value |-> EmptyString]
    ELSE IF key \notin RecognizedKeys THEN [err |-> ErrUnknownKey, value |-> EmptyString]
    ELSE [err |-> ErrNone, value |-> loaded.config[key]]

\* The value of a recognized key as a file holds it (what loadConfig reads).
StoredValue(f, key) == loadConfig(f).config[key]

\* GetConfigPath: the fixed location, no I/O.
GetConfigPath == "<home>/.ai-commit"

\* ------------------------------------------------ version-control adapter
\* strings.TrimSpace
WhiteSpace == {" ", "\n", "\t", "\r"}

RECURSIVE TrimLeft(_)
TrimLeft(s) ==
    IF s # <<>> /\ Head(s) \in WhiteSpace THEN TrimLeft(Tail(s)) ELSE s

RECURSIVE TrimRight(_)
TrimRight(s) ==
    IF s # <<>> /\ s[Len(s)] \in WhiteSpace
    THEN TrimRight(SubSeq(s, 1, Len(s) - 1))
    ELSE s

TrimSpace(s) == TrimRight(TrimLeft(s))

\* strings.ToLower, on the letters the model uses.
LowerChar(c) == IF c = "Y" THEN "y" ELSE IF c = "N" THEN "n" ELSE c

ToLower(s) == [i \in 1..Len(s) |-> LowerChar(s[i])]

\* strings.Split(s, "\n"): always at least one field.
RECURSIVE SplitFrom(_, _, _)
SplitFrom(s, i, field) ==
    IF i > Len(s) THEN <<field>>
    ELSE IF s[i] = "\n" THEN <<field>> \o SplitFrom(s, i + 1, <<>>)
    ELSE SplitFrom(s, i + 1, Append(field, s[i]))

Split(s) == SplitFrom(s, 1, <<>>)

\* bufio.Scanner with ScanLines: the lines without their terminator; an empty
\* input has no line and a final newline starts no line.
ScanLines(s) ==
    IF s = <<>> THEN <<>>
    ELSE LET fields == Split(s)
         IN  IF s[Len(s)] = "\n" THEN SubSeq(fields, 1, Len(fields) - 1) ELSE fields

\* filterEmptyStrings
RECURSIVE filterEmptyStrings(_)
filterEmptyStrings(slice) ==
    IF slice = <<>> THEN <<>>
    ELSE IF Head(slice) # <<>>
         THEN <<Head(slice)>> \o filterEmptyStrings(Tail(slice))
         ELSE filterEmptyStrings(Tail(slice))

\* translateStatus that looks at the first letter of the code only.
translateStatus_FirstLetter(status) ==
    IF status = <<"?", "?">> THEN "Untracked"
    ELSE IF status = <<>> THEN "Unknown"
    ELSE IF Head(status) = "M" THEN "Modified"
    ELSE IF Head(status) = "A" THEN "Added"
    ELSE IF Head(status) = "D" THEN "Deleted"
    ELSE IF Head(status) = "R" THEN "Renamed"
    ELSE IF Head(status) = "C" THEN "Copied"
    ELSE IF Head(status) = "U" THEN "Updated but unmerged"
    ELSE "Unknown"

\* translateStatus
translateStatus(status) ==
    IF status = <<"M">> THEN "Modified"
    ELSE IF status = <<"A">> THEN "Added"
    ELSE IF status = <<"D">> THEN "Deleted"
    ELSE IF status = <<"R">> THEN "Renamed"
    ELSE IF status = <<"C">> THEN "Copied"
    ELSE IF status = <<"U">> THEN "Updated but unmerged"
    ELSE IF status = <<"?", "?">> THEN "Untracked"
    ELSE "Unknown"

\* execGitCommand: the standard output of the command, trimmed.
execGitCommand(output) == TrimSpace(output)

\* GetStagedFiles, from the output of git diff --name-only --cached.
GetStagedFiles(output) == filterEmptyStrings(Split(execGitCommand(output)))

\* GetChangedFiles, from the output of git status --porcelain.
RECURSIVE ParseStatusLines(_)
ParseStatusLines(lines) ==
    IF lines = <<>> THEN <<>>
    ELSE LET line == Head(lines) IN
         IF Len(line) < 4 THEN ParseStatusLines(Tail(lines))
         ELSE <<[Path |-> TrimSpace(SubSeq(line, 4, Len(line))),
                 Status |-> translateStatus(TrimSpace(SubSeq(line, 1, 2)))]>>
              \o ParseStatusLines(Tail(lines))

GetChangedFiles(output) == ParseStatusLines(ScanLines(execGitCommand(output)))

\* GetDiff, from the output of git diff --staged -- files...
GetDiff(output) == execGitCommand(output)

\* promptYesNo that takes every answer but n for a yes.
promptYesNo_NotNo(response) == ToLower(response) # <<"n">>

\* promptYesNo: fmt.Scanln, then strings.ToLower(response) == "y".
promptYesNo(response) == ToLower(response) = <<"y">>

\* ErrNotGitRepo and the other errors of the adapter.
ErrNotGitRepo == "not a Git repository"
ErrCommand == "git command failed"
ErrGitStatus == "error getting git status"
ErrNoChanges == "no changes detected"
ErrNothingStaged == "no staged files"
ErrStage == "error staging files"

\* The repository the process runs in.  entries are the lines git status
\* reports: x is the status in the index, y the status in the working tree.
\* addReachesAll is FALSE when the changes lie outside the directory that
\* git add . is run in.
Entry(x, y, path) == [y |-> y, x |-> x, path |-> path]

IsStaged(e) == e.x \notin {" ", "?"}

RECURSIVE SelectStaged(_)
SelectStaged(entries) ==
    IF entries = <<>> THEN <<>>
    ELSE IF IsStaged(Head(entries))
         THEN <<Head(entries)>> \o SelectStaged(Tail(entries))
         ELSE SelectStaged(Tail(entries))

\* Standard output of git diff --name-only --cached.
RECURSIVE NameOnlyLines(_)
NameOnlyLines(entries) ==
    IF entries = <<>> THEN <<>>
    ELSE Head(entries).path \o <<"\n">> \o NameOnlyLines(Tail(entries))

NameOnlyOutput(r) == NameOnlyLines(SelectStaged(r.entries))

\* Standard output of git status --porcelain.
RECURSIVE PorcelainLines(_)
PorcelainLines(entries) ==
    IF entries = <<>> THEN <<>>
    ELSE <<Head(entries).x, Head(entries).y, " ">> \o Head(entries).path \o <<"\n">>
         \o PorcelainLines(Tail(entries))

PorcelainOutput(r) == PorcelainLines(r.entries)

\* Standard output of git diff --staged -- files...: one hunk per staged entry.
RECURSIVE DiffLines(_)
DiffLines(entries) ==
    IF entries = <<>> THEN <<>>
    ELSE <<"+">> \o Head(entries).path \o <<"\n">> \o DiffLines(Tail(entries))

StagedDiffOutput(r) == DiffLines(SelectStaged(r.entries))

\* Effect of git add . on the index.
AddEntry(e) ==
    Entry(IF e.x = "?" THEN "A" ELSE IF e.x = " " THEN e.y ELSE e.x, " ", e.path)

GitAddAll(r) ==
    IF r.addReachesAll
    THEN [r EXCEPT !.entries = [i \in 1..Len(r.entries) |-> AddEntry(r.entries[i])]]
    ELSE r

\* Effect of git commit on the index: what was staged is no longer a change.
RECURSIVE CommitEntries(_)
CommitEntries(entries) ==
    IF entries = <<>> THEN <<>>
    ELSE LET e == Head(entries) IN
         IF ~IsStaged(e) THEN <<e>> \o CommitEntries(Tail(entries))
         ELSE IF e.y = " " THEN CommitEntries(Tail(entries))
         ELSE <<Entry(" ", e.y, e.path)>> \o CommitEntries(Tail(entries))

GitCommitted(r) == [r EXCEPT !.entries = CommitEntries(r.entries)]

\* --------------------------------------------------------- completion client
StatusOK == 200

ErrGetKey == "failed to get GROQ_APIKEY"
ErrKeyNotSet == "GROQ_APIKEY not set"
ErrRequest == "request failed"
ErrStatus == "unexpected status code"
ErrUnmarshal == "failed to unmarshal response"
ErrNoChoices == "no completion choices returned"

\* NewClient without the check that the key is not empty.
NewClient_NoKeyCheck(f) ==
    LET got == GetConfig(f, "GROQ_APIKEY") IN
    IF got.err # ErrNone THEN [apiKey |-> EmptyString, err |-> ErrGetKey]
    ELSE [apiKey |-> got.value, err |-> ErrNone]

\* NewClient: the key is read from the configuration store.
NewClient(f) ==
    LET got == GetConfig(f, "GROQ_APIKEY") IN
    IF got.err # ErrNone THEN [apiKey |-> EmptyString, err |-> ErrGetKey]
    ELSE IF got.value = EmptyString THEN [apiKey |-> EmptyString, err |-> ErrKeyNotSet]
    ELSE [apiKey |-> got.value, err |-> ErrNone]

\* A response of the endpoint: whether the exchange succeeded at all, the
\* status code, whether the body parses, and the contents of its choices.
Response(transportOK, status, wellFormed, choices) ==
    [wellFormed |-> wellFormed, status |-> status,
     transportOK |-> transportOK, choices |-> choices]

\* What httpClient.Do returns when it fails: no response, an error.
NoResponse == Response(FALSE, 0, FALSE, <<>>)

\* A 3xx answer with a Location header.
Redirect == Response(TRUE, 307, FALSE, <<>>)

IsRedirect(resp) == resp.transportOK /\ resp.status = Redirect.status

\* The redirects among the answers of an exchange.
Redirects(exchanges) == Cardinality({i \in 1..Len(exchanges) : IsRedirect(exchanges[i])})

\* An endpoint that redirects the first k requests and gives the answer
\* final to every request after them.
ServerScript(k, final) == [i \in 1..MaxRequests |-> IF i <= k THEN Redirect ELSE final]

\* Do with a retry of every request that was not answered with 200.
RECURSIVE DoFrom_RetriesFailure(_, _)
DoFrom_RetriesFailure(script, n) ==
    LET answer == script[n] IN
    IF IsRedirect(answer) \/ ~answer.transportOK \/ answer.status # 200
    THEN IF n >= MaxRequests
         THEN [resp |-> IF IsRedirect(answer) THEN NoResponse ELSE answer,
               exchanges |-> SubSeq(script, 1, n)]
         ELSE DoFrom_RetriesFailure(script, n + 1)
    ELSE [resp |-> answer, exchanges |-> SubSeq(script, 1, n)]

\* c.httpClient.Do(req) of &http.Client{Timeout: 30s}: CheckRedirect is nil,
\* so the client follows each redirect with a further request and fails once
\* it has sent MaxRequests of them; every other answer is returned as it is.
\* n is the number of the request being sent, exchanges the answers received.
RECURSIVE DoFrom(_, _)
DoFrom(script, n) ==
    LET answer == script[n] IN
    IF IsRedirect(answer)
    THEN IF n >= MaxRequests
         THEN [resp |-> NoResponse, exchanges |-> SubSeq(script, 1, n)]
         ELSE DoFrom(script, n + 1)
    ELSE [resp |-> answer, exchanges |-> SubSeq(script, 1, n)]

Do(script) == DoFrom(script, 1)

\* GenerateCompletion without the check that a choice was returned.
GenerateCompletion_NoChoicesCheck(resp) ==
    IF ~resp.transportOK THEN [err |-> ErrRequest, code |-> 0, text |-> EmptyString]
    ELSE IF resp.status # StatusOK
         THEN [err |-> ErrStatus, code |-> resp.status, text |-> EmptyString]
    ELSE IF ~resp.wellFormed
         THEN [err |-> ErrUnmarshal, code |-> 0, text |-> EmptyString]
    ELSE [err |-> ErrNone, code |-> 0,
          text |-> IF Len(resp.choices) = 0 THEN EmptyString ELSE resp.choices[1]]

\* GenerateCompletion that returns the last choice.
GenerateCompletion_LastChoice(resp) ==
    IF ~resp.transportOK THEN [err |-> ErrRequest, code |-> 0, text |-> EmptyString]
    ELSE IF resp.status # StatusOK
         THEN [err |-> ErrStatus, code |-> resp.status, text |-> EmptyString]
    ELSE IF ~resp.wellFormed
         THEN [err |-> ErrUnmarshal, code |-> 0, text |-> EmptyString]
    ELSE IF Len(resp.choices) = 0
         THEN [err |-> ErrNoChoices, code |-> 0, text |-> EmptyString]
    ELSE [err |-> ErrNone, code |-> 0, text |-> resp.choices[Len(resp.choices)]]

\* GenerateCompletion without the check of the status code.
GenerateCompletion_NoStatusCheck(resp) ==
    IF ~resp.transportOK THEN [err |-> ErrRequest, code |-> 0, text |-> EmptyString]
    ELSE IF ~resp.wellFormed
         THEN [err |-> ErrUnmarshal, code |-> 0, text |-> EmptyString]
    ELSE IF Len(resp.choices) = 0
         THEN [err |-> ErrNoChoices, code |-> 0, text |-> EmptyString]
    ELSE [err |-> ErrNone, code |-> 0, text |-> resp.choices[1]]

\* Client.GenerateCompletion, after httpClient.Do returned resp.
GenerateCompletion(resp) ==
    IF ~resp.transportOK THEN [err |-> ErrRequest, code |-> 0, text |-> EmptyString]
    ELSE IF resp.status # StatusOK
         THEN [err |-> ErrStatus, code |-> resp.status, text |-> EmptyString]
    ELSE IF ~resp.wellFormed
         THEN [err |-> ErrUnmarshal, code |-> 0, text |-> EmptyString]
    ELSE IF Len(resp.choices) = 0
         THEN [err |-> ErrNoChoices, code |-> 0, text |-> EmptyString]
    ELSE [err |-> ErrNone, code |-> 0, text |-> resp.choices[1]]

\* ------------------------------------------------- commit message service
defaultModel == "llama3-8b-8192"

defaultPrompt == <<"defaultPrompt">>

ErrGetPrompt == "failed to get commit prompt"
ErrNoStagedChanges == "no changes detected in the staged files"

\* GenerateCommitMessage without the fallback to the default prompt.
Messages_NoDefault(commitPrompt, diff) ==
    <<[Role |-> "system", Content |-> commitPrompt],
      [Role |-> "user", Content |-> <<"Here's the git diff:", "\n">> \o diff]>>

\* The two messages CommitMessageGenerator.GenerateCommitMessage builds.
Messages(commitPrompt, diff) ==
    <<[Role |-> "system",
       Content |-> IF commitPrompt = EmptyString THEN defaultPrompt ELSE commitPrompt],
      [Role |-> "user", Content |-> <<"Here's the git diff:", "\n">> \o diff]>>

\* ------------------------------------------------------------------ state
VARIABLES
    file,        \* the configuration file on disk
    argv,        \* os.Args of the invocation: [cmd, key, value]
    pc,          \* position of the process
    exitStatus,  \* exit status of the invocation that ended last
    err,         \* the error run() returned
    out,         \* the value the invocation printed
    lastSet,     \* history: key and value of the last successful set
    fileBefore,  \* history: the file as it was when the invocation started
    repo,        \* the repository and working tree the process runs in
    repoBefore,  \* history: the repository as it was when the invocation started
    stdinClosed, \* the terminal input of the invocation has reached its end
    loc,         \* local variables of runGenerate (of each process, when two run)
    calls,       \* history: the external calls of the invocation, in order
    invalidAnswers \* history: answers confirmCommit rejected in the invocation

genVars == <<repo, repoBefore, stdinClosed, loc, calls, invalidAnswers>>

vars == <<file, argv, pc, exitStatus, err, out, lastSet, fileBefore,
          repo, repoBefore, stdinClosed, loc, calls, invalidAnswers>>

NoLocals ==
    [apiKey |-> EmptyString, diff |-> EmptyString, stagedFiles |-> <<>>,
     commitMessage |-> EmptyString]

NoRepo == [entries |-> <<>>, addReachesAll |-> FALSE, inside |-> FALSE]

KeyArgs == RecognizedKeys \cup {"", "FOO"}

NoArgs == [key |-> "", value |-> EmptyString, cmd |-> ""]

NoSet == [key |-> "none", value |-> EmptyString]

ErrUsage == "must be provided"
ErrUnknownCommand == "unknown command"

\* Contents another program or an editor may have left in a well-formed file.
ForeignStrings == {EmptyString, <<"a">>, <<"xFF">>}

FileModes == {"0000", "0400", "0600", "0644"}

\* The states the file can be in when an invocation starts.
InitialFiles ==
    {AbsentFile}
    \cup {FileOf(m, FALSE, ZeroConfig) : m \in FileModes}
    \cup {FileOf(m, TRUE, Config(k, p)) :
            m \in FileModes, k \in ForeignStrings, p \in ForeignStrings}

\* ----------------------------------------------- configuration commands
\* The shell starts the program.
Invoke(cmd, key, value) ==
    /\ pc = "idle"
    /\ argv' = [key |-> key, value |-> value, cmd |-> cmd]
    /\ pc' = "run"
    /\ exitStatus' = 0
    /\ err' = ErrNone
    /\ out' = EmptyString
    /\ fileBefore' = file
    /\ stdinClosed' = FALSE
    /\ loc' = NoLocals
    /\ calls' = <<>>
    /\ invalidAnswers' = 0
    /\ repoBefore' = repo
    /\ UNCHANGED <<file, lastSet, repo>>

\* main: log.Fatalf (exit status 1) when run() returns an error.
Exit(e) ==
    /\ pc' = "exited"
    /\ err' = e
    /\ exitStatus' = IF e = ErrNone THEN 0 ELSE 1

\* run() -> runSetConfig -> config.SetConfig
RunSetConfig ==
    /\ pc = "run"
    /\ argv.cmd = "setConfig"
    /\ IF argv.key = "" \/ argv.value = EmptyString
       THEN /\ Exit(ErrUsage)
            /\ UNCHANGED <<file, out, lastSet>>
       ELSE LET r == SetConfig(file, argv.key, argv.value) IN
            /\ Exit(r.err)
            /\ file' = r.file
            /\ out' = IF r.err = ErrNone THEN argv.value ELSE EmptyString
            /\ lastSet' = IF r.err = ErrNone
                          THEN [key |-> argv.key, value |-> argv.value]
                          ELSE lastSet
    /\ UNCHANGED <<argv, fileBefore, genVars>>

\* run() -> runGetConfig -> config.GetConfig
RunGetConfig ==
    /\ pc = "run"
    /\ argv.cmd = "getConfig"
    /\ IF argv.key = ""
       THEN /\ Exit(ErrUsage)
            /\ out' = EmptyString
       ELSE LET r == GetConfig(file, argv.key) IN
            /\ Exit(r.err)
            /\ out' = r.value
    /\ UNCHANGED <<file, argv, lastSet, fileBefore, genVars>>

\* run() -> runGetConfigPath
RunGetConfigPath ==
    /\ pc = "run"
    /\ argv.cmd = "getConfigPath"
    /\ Exit(ErrNone)
    /\ out' = <<GetConfigPath>>
    /\ UNCHANGED <<file, argv, lastSet, fileBefore, genVars>>

\* run(): default branch of the switch
RunUnknownCommand ==
    /\ pc = "run"
    /\ argv.cmd \notin {"", "generate", "setConfig", "getConfig", "getConfigPath"}
    /\ Exit(ErrUnknownCommand)
    /\ UNCHANGED <<file, argv, out, lastSet, fileBefore, genVars>>

\* The process has ended; the shell is ready for the next command.
Return ==
    /\ pc = "exited"
    /\ pc' = "idle"
    /\ loc' = NoLocals
    /\ calls' = <<>>
    /\ invalidAnswers' = 0
    /\ UNCHANGED <<file, argv, exitStatus, err, out, lastSet, fileBefore,
                   repo, repoBefore, stdinClosed>>

InitConfig ==
    /\ file \in InitialFiles
    /\ argv = NoArgs
    /\ pc = "idle"
    /\ exitStatus = 0
    /\ err = ErrNone
    /\ out = EmptyString
    /\ lastSet = NoSet
    /\ fileBefore = file
    /\ repo = NoRepo
    /\ repoBefore = repo
    /\ stdinClosed = FALSE
    /\ loc = NoLocals
    /\ calls = <<>>
    /\ invalidAnswers = 0

\* The command lines of the configuration commands: flags a command does not
\* define are not given.
InvokeConfig ==
    \/ \E key \in KeyArgs, value \in ArgValues : Invoke("setConfig", key, value)
    \/ \E key \in KeyArgs : Invoke("getConfig", key, EmptyString)
    \/ \E cmd \in {"getConfigPath", "frobnicate"} : Invoke(cmd, "", EmptyString)

NextConfig ==
    \/ InvokeConfig
    \/ RunSetConfig
    \/ RunGetConfig
    \/ RunGetConfigPath
    \/ RunUnknownCommand
    \/ Return

SpecConfig == InitConfig /\ [][NextConfig]_vars

\* ------------------------------------------------------------ generate
\* A recorded external call: the operation, its argument, whether it succeeded.
Call(op, arg, ok) == [op |-> op, arg |-> arg, ok |-> ok]

\* What the terminal can deliver to one read: a line, or the end of input.
\* q stands for every line that is neither y nor n, the empty line included.
Answers == {<<"y">>, <<"Y">>, <<"n">>, <<"q">>}

EndOfInput == <<"EOF">>

Inputs == IF stdinClosed THEN {EndOfInput} ELSE Answers \cup {EndOfInput}

\* The responses the endpoint can give.
Contents == {<<"m">>, <<"o">>, EmptyString}

Responses ==
    {Response(FALSE, 0, FALSE, <<>>)}
    \cup {Response(TRUE, st, FALSE, <<>>) : st \in {200, 401, 500}}
    \cup {Response(TRUE, st, TRUE, ch) :
            st \in {200, 201, 401}, ch \in SeqsUpTo(Contents, 2)}

\* runGenerate that goes on when AssertGitRepo fails.
AssertGitRepo_IgnoresError ==
    /\ pc = "run"
    /\ argv.cmd \in {"", "generate"}
    /\ \E ok \in {repo.inside, FALSE} :
        /\ calls' = Append(calls, Call("git rev-parse", <<>>, ok))
        /\ pc' = "ensure"
        /\ UNCHANGED <<err, exitStatus>>
    /\ UNCHANGED <<file, argv, out, lastSet, fileBefore, repo, repoBefore, stdinClosed,
                   loc, invalidAnswers>>

\* runGenerate: git.AssertGitRepo
AssertGitRepo ==
    /\ pc = "run"
    /\ argv.cmd \in {"", "generate"}
    /\ \E ok \in {repo.inside, FALSE} :
        /\ calls' = Append(calls, Call("git rev-parse", <<>>, ok))
        /\ IF ok
           THEN pc' = "ensure" /\ UNCHANGED <<err, exitStatus>>
           ELSE Exit(ErrNotGitRepo)
    /\ UNCHANGED <<file, argv, out, lastSet, fileBefore, repo, repoBefore, stdinClosed,
                   loc, invalidAnswers>>

\* EnsureFilesAreStaged without the len(stagedFiles) == 0 condition.
EnsureStaged_GetStaged_AlwaysLists ==
    /\ pc = "ensure"
    /\ \E ok \in BOOLEAN :
        /\ calls' = Append(calls, Call("git diff --name-only --cached", <<>>, ok))
        /\ IF ~ok THEN Exit(ErrCommand)
           ELSE pc' = "ensure_changed" /\ UNCHANGED <<err, exitStatus>>
    /\ UNCHANGED <<file, argv, out, lastSet, fileBefore, repo, repoBefore, stdinClosed,
                   loc, invalidAnswers>>

\* EnsureFilesAreStaged: GetStagedFiles, return nil when a file is staged.
EnsureStaged_GetStaged ==
    /\ pc = "ensure"
    /\ \E ok \in BOOLEAN :
        /\ calls' = Append(calls, Call("git diff --name-only --cached", <<>>, ok))
        /\ IF ~ok THEN Exit(ErrCommand)
           ELSE /\ pc' = IF Len(GetStagedFiles(NameOnlyOutput(repo))) = 0
                         THEN "ensure_changed" ELSE "list"
                /\ UNCHANGED <<err, exitStatus>>
    /\ UNCHANGED <<file, argv, out, lastSet, fileBefore, repo, repoBefore, stdinClosed,
                   loc, invalidAnswers>>

\* EnsureFilesAreStaged without the len(changedFiles) == 0 return.
EnsureStaged_GetChanged_NoCheck ==
    /\ pc = "ensure_changed"
    /\ \E ok \in BOOLEAN :
        /\ calls' = Append(calls, Call("git status --porcelain", <<>>, ok))
        /\ IF ~ok THEN Exit(ErrGitStatus)
           ELSE pc' = "ensure_prompt" /\ UNCHANGED <<err, exitStatus>>
    /\ UNCHANGED <<file, argv, out, lastSet, fileBefore, repo, repoBefore, stdinClosed,
                   loc, invalidAnswers>>

\* EnsureFilesAreStaged: GetChangedFiles, "no changes detected" when none.
EnsureStaged_GetChanged ==
    /\ pc = "ensure_changed"
    /\ \E ok \in BOOLEAN :
        /\ calls' = Append(calls, Call("git status --porcelain", <<>>, ok))
        /\ IF ~ok THEN Exit(ErrGitStatus)
           ELSE IF Len(GetChangedFiles(PorcelainOutput(repo))) = 0
           THEN Exit(ErrNoChanges)
           ELSE pc' = "ensure_prompt" /\ UNCHANGED <<err, exitStatus>>
    /\ UNCHANGED <<file, argv, out, lastSet, fileBefore, repo, repoBefore, stdinClosed,
                   loc, invalidAnswers>>

\* EnsureFilesAreStaged: promptYesNo("Do you want to stage all these changes?")
EnsureStaged_Prompt ==
    /\ pc = "ensure_prompt"
    /\ \E input \in Inputs :
        LET response == IF input = EndOfInput THEN EmptyString ELSE input IN
        /\ stdinClosed' = (input = EndOfInput)
        /\ calls' = Append(calls, Call("prompt stage", response, TRUE))
        /\ IF ~promptYesNo(response)
           THEN Exit(ErrNothingStaged)
           ELSE pc' = "ensure_add" /\ UNCHANGED <<err, exitStatus>>
    /\ UNCHANGED <<file, argv, out, lastSet, fileBefore, repo, repoBefore, loc,
                   invalidAnswers>>

\* EnsureFilesAreStaged that returns nil when git add . fails.
EnsureStaged_Add_IgnoresError ==
    /\ pc = "ensure_add"
    /\ \E ok \in BOOLEAN :
        /\ calls' = Append(calls, Call("git add .", <<>>, ok))
        /\ repo' = IF ok THEN GitAddAll(repo) ELSE repo
        /\ pc' = "list"
        /\ UNCHANGED <<err, exitStatus>>
    /\ UNCHANGED <<file, argv, out, lastSet, fileBefore, repoBefore, stdinClosed, loc,
                   invalidAnswers>>

\* EnsureFilesAreStaged: git add .
EnsureStaged_Add ==
    /\ pc = "ensure_add"
    /\ \E ok \in BOOLEAN :
        /\ calls' = Append(calls, Call("git add .", <<>>, ok))
        /\ IF ~ok
           THEN Exit(ErrStage) /\ UNCHANGED repo
           ELSE /\ repo' = GitAddAll(repo)
                /\ pc' = "list"
                /\ UNCHANGED <<err, exitStatus>>
    /\ UNCHANGED <<file, argv, out, lastSet, fileBefore, repoBefore, stdinClosed, loc,
                   invalidAnswers>>

\* runGenerate that goes on with no staged file when GetStagedFiles fails.
ListStagedFiles_IgnoresError ==
    /\ pc = "list"
    /\ \E ok \in BOOLEAN :
        /\ calls' = Append(calls, Call("git diff --name-only --cached", <<>>, ok))
        /\ loc' = [loc EXCEPT !.stagedFiles =
                        IF ok THEN GetStagedFiles(NameOnlyOutput(repo)) ELSE <<>>]
        /\ pc' = "diff"
        /\ UNCHANGED <<err, exitStatus>>
    /\ UNCHANGED <<file, argv, out, lastSet, fileBefore, repo, repoBefore, stdinClosed,
                   invalidAnswers>>

\* runGenerate: git.GetStagedFiles
ListStagedFiles ==
    /\ pc = "list"
    /\ \E ok \in BOOLEAN :
        /\ calls' = Append(calls, Call("git diff --name-only --cached", <<>>, ok))
        /\ IF ~ok
           THEN Exit(ErrCommand) /\ UNCHANGED loc
           ELSE /\ loc' = [loc EXCEPT !.stagedFiles = GetStagedFiles(NameOnlyOutput(repo))]
                /\ pc' = "diff"
                /\ UNCHANGED <<err, exitStatus>>
    /\ UNCHANGED <<file, argv, out, lastSet, fileBefore, repo, repoBefore, stdinClosed,
                   invalidAnswers>>

\* runGenerate without the diff == "" return.
FetchDiff_NoEmptyCheck ==
    /\ pc = "diff"
    /\ \E ok \in BOOLEAN :
        /\ calls' = Append(calls, Call("git diff --staged", loc.stagedFiles, ok))
        /\ IF ~ok
           THEN Exit(ErrCommand) /\ UNCHANGED loc
           ELSE /\ loc' = [loc EXCEPT !.diff = GetDiff(StagedDiffOutput(repo))]
                /\ pc' = "client"
                /\ UNCHANGED <<err, exitStatus>>
    /\ UNCHANGED <<file, argv, out, lastSet, fileBefore, repo, repoBefore, stdinClosed,
                   invalidAnswers>>

\* runGenerate: git.GetDiff(stagedFiles), and the check that the diff is not empty
FetchDiff ==
    /\ pc = "diff"
    /\ \E ok \in BOOLEAN :
        /\ calls' = Append(calls, Call("git diff --staged", loc.stagedFiles, ok))
        /\ IF ~ok
           THEN Exit(ErrCommand) /\ UNCHANGED loc
           ELSE LET diff == GetDiff(StagedDiffOutput(repo)) IN
                /\ loc' = [loc EXCEPT !.diff = diff]
                /\ IF diff = EmptyString
                   THEN Exit(ErrNoStagedChanges)
                   ELSE pc' = "client" /\ UNCHANGED <<err, exitStatus>>
    /\ UNCHANGED <<file, argv, out, lastSet, fileBefore, repo, repoBefore, stdinClosed,
                   invalidAnswers>>

\* runGenerate: service.NewCommitMessageGenerator("") -> groq.NewClient
NewCommitMessageGenerator ==
    /\ pc = "client"
    /\ LET client == NewClient(file) IN
        /\ calls' = Append(calls, Call("GetConfig", "GROQ_APIKEY", client.err = ErrNone))
        /\ IF client.err # ErrNone
           THEN Exit(client.err) /\ UNCHANGED loc
           ELSE /\ loc' = [loc EXCEPT !.apiKey = client.apiKey]
                /\ pc' = "complete"
                /\ UNCHANGED <<err, exitStatus>>
    /\ UNCHANGED <<file, argv, out, lastSet, fileBefore, repo, repoBefore, stdinClosed,
                   invalidAnswers>>

\* runGenerate: generator.GenerateCommitMessage(diff) -> Client.GenerateCompletion
GenerateCommitMessage ==
    /\ pc = "complete"
    /\ LET got == GetConfig(file, "COMMIT_PROMPT") IN
       IF got.err # ErrNone
       THEN /\ calls' = Append(calls, Call("GetConfig", "COMMIT_PROMPT", FALSE))
            /\ Exit(ErrGetPrompt)
            /\ UNCHANGED <<loc, out>>
       ELSE \* the endpoint redirects k times: never, once, or every time
            \E final \in Responses, k \in {0, 1, MaxRequests} :
            LET request == [apiKey |-> loc.apiKey, model |-> defaultModel,
                            messages |-> Messages(got.value, loc.diff)]
                sent == Do(ServerScript(k, final))
                done == GenerateCompletion(sent.resp)
            IN  /\ calls' = calls \o <<Call("GetConfig", "COMMIT_PROMPT", TRUE),
                                       Call("POST",
                                            [err |-> done.err, code |-> done.code,
                                             text |-> done.text, request |-> request,
                                             requests |-> Len(sent.exchanges),
                                             redirects |-> Redirects(sent.exchanges)],
                                            done.err = ErrNone)>>
                /\ IF done.err # ErrNone
                   THEN Exit(done.err) /\ UNCHANGED <<loc, out>>
                   ELSE /\ loc' = [loc EXCEPT !.commitMessage = done.text]
                        /\ out' = done.text
                        /\ pc' = "confirm"
                        /\ UNCHANGED <<err, exitStatus>>
    /\ UNCHANGED <<file, argv, lastSet, fileBefore, repo, repoBefore, stdinClosed,
                   invalidAnswers>>

\* confirmCommit that takes every answer but n for a yes.
ConfirmCommit_AnyAnswerIsYes ==
    /\ pc = "confirm"
    /\ \E input \in Inputs :
        IF input = EndOfInput
        THEN /\ stdinClosed' = TRUE
             /\ pc' = "confirm_error"
             /\ UNCHANGED <<err, exitStatus, invalidAnswers, calls>>
        ELSE LET response == TrimSpace(ToLower(input)) IN
             /\ UNCHANGED <<stdinClosed, invalidAnswers>>
             /\ calls' = Append(calls, Call("prompt commit", input, TRUE))
             /\ IF response = <<"n">>
                THEN Exit(ErrNone)
                ELSE pc' = "commit" /\ UNCHANGED <<err, exitStatus>>
    /\ UNCHANGED <<file, argv, out, lastSet, fileBefore, repo, repoBefore, loc>>

\* confirmCommit: one turn of the loop, up to the outcome of the read.  A
\* read that meets the end of the input returns an error; an answer that is
\* neither y nor n makes the loop ask again.
ConfirmCommit ==
    /\ pc = "confirm"
    /\ \E input \in Inputs :
        IF input = EndOfInput
        THEN /\ stdinClosed' = TRUE
             /\ pc' = "confirm_error"
             /\ UNCHANGED <<err, exitStatus, invalidAnswers, calls>>
        ELSE LET response == TrimSpace(ToLower(input)) IN
             /\ UNCHANGED stdinClosed
             /\ calls' = Append(calls, Call("prompt commit", input, TRUE))
             /\ IF response = <<"y">>
                THEN pc' = "commit" /\ UNCHANGED <<err, exitStatus, invalidAnswers>>
                ELSE IF response = <<"n">>
                THEN Exit(ErrNone) /\ UNCHANGED invalidAnswers
                ELSE /\ invalidAnswers < MaxInvalidAnswers
                     /\ invalidAnswers' = invalidAnswers + 1
                     /\ UNCHANGED <<pc, err, exitStatus>>
    /\ UNCHANGED <<file, argv, out, lastSet, fileBefore, repo, repoBefore, loc>>

\* confirmCommit, err != nil: "Error reading input. Please try again." and
\* continue, which is the next turn of the loop.
ConfirmCommit_Continue ==
    /\ pc = "confirm_error"
    /\ pc' = "confirm"
    /\ UNCHANGED <<file, argv, exitStatus, err, out, lastSet, fileBefore, repo,
                   repoBefore, stdinClosed, loc, calls, invalidAnswers>>

\* runGenerate: git.GitCommit(commitMessage).  git refuses an empty message
\* and a commit of nothing.
GitCommit ==
    /\ pc = "commit"
    /\ \E ok \in {FALSE, /\ TrimSpace(loc.commitMessage) # EmptyString
                         /\ SelectStaged(repo.entries) # <<>>} :
        /\ calls' = Append(calls, Call("git commit", loc.commitMessage, ok))
        /\ IF ok
           THEN Exit(ErrNone) /\ repo' = GitCommitted(repo)
           ELSE Exit(ErrCommand) /\ UNCHANGED repo
    /\ UNCHANGED <<file, argv, out, lastSet, fileBefore, repoBefore, stdinClosed, loc,
                   invalidAnswers>>

\* The entries git status can report.
EntryKinds ==
    {Entry(" ", "M", <<"f">>), Entry("?", "?", <<"f", "g">>),
     Entry("M", " ", <<"f">>), Entry("M", "M", <<"g">>)}

\* The repositories an invocation can start in.  git add . runs only when
\* nothing is staged, so the reach of git add . is varied for those alone.
Repos ==
    {NoRepo}
    \cup {[entries |-> es, addReachesAll |-> TRUE, inside |-> TRUE] :
            es \in SeqsUpTo(EntryKinds, MaxChanges)}
    \cup {[entries |-> es, addReachesAll |-> FALSE, inside |-> TRUE] :
            es \in {s \in SeqsUpTo(EntryKinds, MaxChanges) : SelectStaged(s) = <<>>}}

\* The configuration files generate can meet: what it reads is whether the
\* file loads and whether each value is empty.
GenerateFiles ==
    {AbsentFile, FileOf("0600", FALSE, ZeroConfig)}
    \cup {FileOf("0600", TRUE, Config(k, p)) :
            k \in {EmptyString, <<"a">>}, p \in {EmptyString, <<"a">>}}

Init ==
    /\ file \in GenerateFiles
    /\ argv = NoArgs
    /\ pc = "idle"
    /\ exitStatus = 0
    /\ err = ErrNone
    /\ out = EmptyString
    /\ lastSet = NoSet
    /\ fileBefore = file
    /\ repo \in Repos
    /\ repoBefore = repo
    /\ stdinClosed = FALSE
    /\ loc = NoLocals
    /\ calls = <<>>
    /\ invalidAnswers = 0

InvokeGenerate == \E cmd \in {"", "generate"} : Invoke(cmd, "", EmptyString)

Next ==
    \/ InvokeGenerate
    \/ AssertGitRepo
    \/ EnsureStaged_GetStaged
    \/ EnsureStaged_GetChanged
    \/ EnsureStaged_Prompt
    \/ EnsureStaged_Add
    \/ ListStagedFiles
    \/ FetchDiff
    \/ NewCommitMessageGenerator
    \/ GenerateCommitMessage
    \/ ConfirmCommit
    \/ ConfirmCommit_Continue
    \/ GitCommit
    \/ Return

Spec == Init /\ [][Next]_vars

\* The process is single-threaded and every call it makes returns: a step
\* that can change the state is taken.
SpecLive == Init /\ [][Next]_vars /\ WF_vars(Next)

\* ------------------------------------- cmd/ai-generate-commit/main.go
\* The revision of the entry point in cmd/ai-generate-commit/main.go: main
\* dispatches on os.Args[1] itself, runGenerate ends the process with
\* log.Fatal on an error and returns otherwise, and the confirmation is one
\* read.  It calls the adapter as the other revision does, and the package
\* functions service.GenerateCommitMessage and groq.GenerateCompletion.

\* config.GetConfig of that revision returns the value alone; its source is
\* not among the files, so the value is the one the present GetConfig reads
\* and a failed read is the empty string.
GetConfigValue(f, key) ==
    LET got == GetConfig(f, key) IN
    IF got.err # ErrNone THEN EmptyString ELSE got.value

\* groq.GenerateCompletion (package function), after client.Do returned resp:
\* the status code is not looked at.
PackageGenerateCompletion(resp) ==
    IF ~resp.transportOK THEN [err |-> ErrRequest, code |-> 0, text |-> EmptyString]
    ELSE IF ~resp.wellFormed
         THEN [err |-> ErrUnmarshal, code |-> 0, text |-> EmptyString]
    ELSE IF Len(resp.choices) = 0
         THEN [err |-> ErrNoChoices, code |-> 0, text |-> EmptyString]
    ELSE [err |-> ErrNone, code |-> 0, text |-> resp.choices[1]]

\* The runs of runGenerate the process has started.
Runs == Cardinality({i \in 1..Len(calls) : calls[i].op = "git rev-parse"})

\* runGenerate returned to main.  For os.Args[1] = "generate" the call that
\* returned first is the one in the inner switch, and main calls runGenerate
\* again after that switch; otherwise main returns.
Main_ReturnFromGenerate ==
    IF argv.cmd = "generate" /\ Runs = 1
    THEN pc' = "run" /\ loc' = NoLocals /\ UNCHANGED <<err, exitStatus>>
    ELSE Exit(ErrNone) /\ UNCHANGED loc

\* runGenerate: service.GenerateCommitMessage(diff) -> groq.GenerateCompletion
Main_GenerateCommitMessage ==
    /\ pc = "client"
    /\ LET commitPrompt == GetConfigValue(file, "COMMIT_PROMPT")
           apiKey == GetConfigValue(file, "GROQ_APIKEY")
       IN
       IF apiKey = EmptyString
       THEN /\ calls' = Append(calls, Call("GetConfig", "GROQ_APIKEY", FALSE))
            /\ Exit(ErrKeyNotSet)
            /\ UNCHANGED <<loc, out>>
       ELSE \E final \in Responses, k \in {0, 1, MaxRequests} :
            LET request == [apiKey |-> apiKey, model |-> defaultModel,
                            messages |-> Messages(commitPrompt, loc.diff)]
                sent == Do(ServerScript(k, final))
                done == PackageGenerateCompletion(sent.resp)
            IN  /\ calls' = calls \o <<Call("GetConfig", "GROQ_APIKEY", TRUE),
                                       Call("POST",
                                            [err |-> done.err, code |-> done.code,
                                             text |-> done.text, request |-> request,
                                             requests |-> Len(sent.exchanges),
                                             redirects |-> Redirects(sent.exchanges)],
                                            done.err = ErrNone)>>
                /\ IF done.err # ErrNone
                   THEN Exit(done.err) /\ UNCHANGED <<loc, out>>
                   ELSE /\ loc' = [loc EXCEPT !.commitMessage = done.text]
                        /\ out' = done.text
                        /\ pc' = "confirm"
                        /\ UNCHANGED <<err, exitStatus>>
    /\ UNCHANGED <<file, argv, lastSet, fileBefore, repo, repoBefore, stdinClosed,
                   invalidAnswers>>

\* runGenerate: one reader.ReadString, its error dropped; y or Y commits,
\* everything else prints "Commit aborted." and returns.
Main_Confirm ==
    /\ pc = "confirm"
    /\ \E input \in Inputs :
        LET response == IF input = EndOfInput THEN EmptyString ELSE TrimSpace(input) IN
        /\ stdinClosed' = (input = EndOfInput)
        /\ calls' = Append(calls, Call("prompt commit", response, TRUE))
        /\ IF response \in {<<"y">>, <<"Y">>}
           THEN pc' = "commit" /\ UNCHANGED <<err, exitStatus, loc>>
           ELSE Main_ReturnFromGenerate
    /\ UNCHANGED <<file, argv, out, lastSet, fileBefore, repo, repoBefore,
                   invalidAnswers>>

\* runGenerate: git.GitCommit(commitMessage), log.Fatal when it fails.
Main_GitCommit ==
    /\ pc = "commit"
    /\ \E ok \in {FALSE, /\ TrimSpace(loc.commitMessage) # EmptyString
                         /\ SelectStaged(repo.entries) # <<>>} :
        /\ calls' = Append(calls, Call("git commit", loc.commitMessage, ok))
        /\ IF ok
           THEN Main_ReturnFromGenerate /\ repo' = GitCommitted(repo)
           ELSE Exit(ErrCommand) /\ UNCHANGED <<repo, loc>>
    /\ UNCHANGED <<file, argv, out, lastSet, fileBefore, repoBefore, stdinClosed,
                   invalidAnswers>>

NextMain ==
    \/ InvokeGenerate
    \/ AssertGitRepo
    \/ EnsureStaged_GetStaged
    \/ EnsureStaged_GetChanged
    \/ EnsureStaged_Prompt
    \/ EnsureStaged_Add
    \/ ListStagedFiles
    \/ FetchDiff
    \/ Main_GenerateCommitMessage
    \/ Main_Confirm
    \/ Main_GitCommit
    \/ Return

SpecMain == Init /\ [][NextMain]_vars

\* ------------------------------------------------------ single operations
\* The operations of the adapter and of the client, each called on its own
\* with inputs drawn from bounded sets; calls holds the last call, its inputs
\* and what it returned.
InitUnit ==
    /\ file = AbsentFile
    /\ argv = NoArgs
    /\ pc = "idle"
    /\ exitStatus = 0
    /\ err = ErrNone
    /\ out = EmptyString
    /\ lastSet = NoSet
    /\ fileBefore = file
    /\ repo = NoRepo
    /\ repoBefore = repo
    /\ stdinClosed = FALSE
    /\ loc = NoLocals
    /\ calls = <<>>
    /\ invalidAnswers = 0

Returned(op, arg, ok) ==
    /\ calls' = <<Call(op, arg, ok)>>
    /\ UNCHANGED <<file, argv, pc, exitStatus, err, out, lastSet, fileBefore,
                   repo, repoBefore, stdinClosed, loc, invalidAnswers>>

\* Client.GenerateCompletion against an endpoint that redirects k times.
Call_GenerateCompletion ==
    \E final \in Responses, k \in 0..MaxRequests :
        LET sent == Do(ServerScript(k, final))
            done == GenerateCompletion(sent.resp)
        IN  Returned("GenerateCompletion",
                     [err |-> done.err, resp |-> sent.resp,
                      exchanges |-> sent.exchanges, code |-> done.code,
                      text |-> done.text],
                     done.err = ErrNone)

\* The text a command prints for a sequence of lines.
RECURSIVE JoinLines(_)
JoinLines(lines) ==
    IF lines = <<>> THEN <<>>
    ELSE Head(lines) \o <<"\n">> \o JoinLines(Tail(lines))

\* Status codes translateStatus can be given: everything of up to two letters.
StatusLetters == {"M", "A", "D", "R", "C", "U", "?", "T", "m"}

StatusCodes == SeqsUpTo(StatusLetters, 2)

Call_translateStatus ==
    \E status \in StatusCodes :
        Returned("translateStatus",
                 [status |-> status, label |-> translateStatus(status)], TRUE)

\* Lines git status --porcelain can print (XY, a space, the path), and lines
\* that are shorter than that.
LongLines ==
    {<<" ", "M", " ", "f", "g">>, <<"M", " ", " ", "f", "g">>,
     <<"?", "?", " ", "f">>, <<" ", "M", " ", "f">>,
     <<"M", "M", " ", "f", " ">>}

ShortLines == {<<>>, <<"a", "b">>, <<" ", "M", " ">>}

Call_GetChangedFiles ==
    \E lines \in SeqsUpTo(LongLines \cup ShortLines, MaxLines) :
        Returned("GetChangedFiles",
                 [lines |-> lines, result |-> GetChangedFiles(JoinLines(lines))], TRUE)

\* Lines git diff --name-only --cached can print, and blank lines.
NameLines == {<<"f">>, <<"f", "g">>, <<" ", "f">>, <<" ">>, <<>>}

Call_GetStagedFiles ==
    \E lines \in SeqsUpTo(NameLines, MaxLines) :
        Returned("GetStagedFiles",
                 [lines |-> lines, result |-> GetStagedFiles(JoinLines(lines))], TRUE)

\* Prompts the configuration can hold; "{diff}" is the placeholder the README
\* tells the user to write where the diff is to go.
Placeholder == "{diff}"

Prompts == {EmptyString, <<"a">>, <<Placeholder>>, <<"a", Placeholder, "a">>}

\* Diffs GetDiff can return.
Diffs == {<<"+", "f">>, <<"+", "f", "\n", "+", "g">>}

\* GenerateCommitMessage: the messages it builds from the configured prompt
\* and the diff.
Call_Messages ==
    \E commitPrompt \in Prompts, diff \in Diffs :
        Returned("Messages",
                 [commitPrompt |-> commitPrompt, diff |-> diff,
                  messages |-> Messages(commitPrompt, diff)], TRUE)

NextUnit ==
    \/ Call_GenerateCompletion
    \/ Call_translateStatus
    \/ Call_GetChangedFiles
    \/ Call_GetStagedFiles
    \/ Call_Messages

SpecUnit == InitUnit /\ [][NextUnit]_vars

\* ------------------------------------------------- two concurrent sets
\* Two processes run setConfig on the same file at the same time.  Each
\* runs SetConfig in the steps the operating system can interleave:
\* os.ReadFile in loadConfig, then in os.WriteFile the OpenFile with
\* O_WRONLY|O_CREATE|O_TRUNC and the Write.  loc holds the locals of each
\* process, calls the processes in the order of their writes.
Procs == {1, 2}

\* The values a set can carry (runSetConfig refuses the empty value).
RaceValues == ArgValues \ {EmptyString}

\* The files the two processes can find.
RaceFiles ==
    {AbsentFile}
    \cup {FileOf("0600", TRUE, Config(k, p)) :
            k \in {EmptyString, <<"a">>}, p \in {EmptyString, <<"a">>}}

\* The bytes one token of a string literal takes in the file.
TokenBytes(t) == IF t = "\\ufffd" THEN 6 ELSE IF t = "uFFFD" THEN 3 ELSE 1

RECURSIVE StringBytes(_)
StringBytes(t) ==
    IF t = <<>> THEN 0 ELSE TokenBytes(Head(t)) + StringBytes(Tail(t))

\* The length of the text json.MarshalIndent gives, less the part that is
\* the same for every Config.
DataBytes(json) == StringBytes(json.GROQ_APIKEY) + StringBytes(json.COMMIT_PROMPT)

\* The length of the file, for a file that was truncated and written since
\* by nothing but saveConfig: it is empty, or it holds what was written.
FileBytes(f) == IF f.wellFormed THEN DataBytes(f.json) ELSE 0

\* What saveConfig writes for a Config.
MarshalConfig(config) ==
    Config(MarshalString(config.GROQ_APIKEY), MarshalString(config.COMMIT_PROMPT))

\* The file after OpenFile(name, O_WRONLY|O_CREATE|O_TRUNC, perm): empty.
\* An empty file does not parse.
OpenTruncate(f, perm) ==
    IF ~f.exists THEN [err |-> ErrNone, file |-> FileOf(perm, FALSE, ZeroConfig)]
    ELSE IF ~Writable(f) THEN [err |-> ErrWrite, file |-> f]
    ELSE [err |-> ErrNone, file |-> FileOf(f.mode, FALSE, ZeroConfig)]

\* The file after f.Write(data) on a descriptor at offset 0: the data
\* replace the first bytes of the file and the file keeps what it holds
\* beyond them, which leaves a text that does not parse.
WriteAtStart(f, json) ==
    IF DataBytes(json) >= FileBytes(f)
    THEN FileOf(f.mode, TRUE, json)
    ELSE FileOf(f.mode, FALSE, ZeroConfig)

Locals(pos, key, value, config, e) ==
    [err |-> e, config |-> config, key |-> key, value |-> value, pc |-> pos]

InitRace ==
    /\ file \in RaceFiles
    /\ argv = NoArgs
    /\ pc = "race"
    /\ exitStatus = 0
    /\ err = ErrNone
    /\ out = EmptyString
    /\ lastSet = NoSet
    /\ fileBefore = file
    /\ repo = NoRepo
    /\ repoBefore = repo
    /\ stdinClosed = FALSE
    /\ loc \in [Procs -> {Locals("start", k, v, ZeroConfig, ErrNone) :
                            k \in RecognizedKeys, v \in RaceValues}]
    /\ calls = <<>>
    /\ invalidAnswers = 0

RaceFrame ==
    UNCHANGED <<argv, pc, exitStatus, err, out, lastSet, fileBefore, repo,
                repoBefore, stdinClosed, invalidAnswers>>

\* SetConfig: loadConfig.  config is the snapshot the process loaded.
Race_Load(p) ==
    /\ loc[p].pc = "start"
    /\ LET loaded == loadConfig(file) IN
       loc' = [loc EXCEPT ![p] =
                  IF loaded.err # ErrNone
                  THEN Locals("failed", @.key, @.value, @.config, loaded.err)
                  ELSE Locals("loaded", @.key, @.value, loaded.config, ErrNone)]
    /\ UNCHANGED <<file, calls>>
    /\ RaceFrame

\* SetConfig: the switch, json.MarshalIndent, and in os.WriteFile the OpenFile.
Race_Open(p) ==
    /\ loc[p].pc = "loaded"
    /\ LET opened == OpenTruncate(file, "0600") IN
        /\ file' = opened.file
        /\ loc' = [loc EXCEPT ![p] =
                      IF opened.err # ErrNone
                      THEN Locals("failed", @.key, @.value, @.config, opened.err)
                      ELSE Locals("opened", @.key, @.value, @.config, ErrNone)]
    /\ UNCHANGED calls
    /\ RaceFrame

\* os.WriteFile: f.Write(data) and f.Close().
Race_Write(p) ==
    /\ loc[p].pc = "opened"
    /\ file' = WriteAtStart(file,
                            MarshalConfig([loc[p].config EXCEPT
                                              ![loc[p].key] = loc[p].value]))
    /\ loc' = [loc EXCEPT ![p] = Locals("done", @.key, @.value, @.config, ErrNone)]
    /\ calls' = Append(calls, Call("write", p, TRUE))
    /\ RaceFrame

NextRace ==
    \/ \E p \in Procs : Race_Load(p)
    \/ \E p \in Procs : Race_Open(p)
    \/ \E p \in Procs : Race_Write(p)

SpecRace == InitRace /\ [][NextRace]_vars

\* ------------------------------------------------------ claims: generate
\* Positions of the calls of an operation in the history of the invocation.
CallsOf(op) == {i \in 1..Len(calls) : calls[i].op = op}

Called(op) == \E i \in 1..Len(calls) : calls[i].op = op

CalledOK(op) == \E i \in 1..Len(calls) : calls[i].op = op /\ calls[i].ok

\* An answer confirmCommit takes for yes / for no.
SaysYes(answer) == TrimSpace(ToLower(answer)) = <<"y">>

SaysNo(answer) == TrimSpace(ToLower(answer)) = <<"n">>

\* C1: a commit is invoked only after a completion request succeeded and the
\* user answered yes to the confirmation, with exactly the text the completion
\* returned; once the user answered no, no commit has been invoked and the
\* process has ended with status zero.
C1_CommitOnlyAfterYes ==
    /\ \A c \in CallsOf("git commit") :
        /\ \E p \in CallsOf("POST"), a \in CallsOf("prompt commit") :
            /\ p < a
            /\ a < c
            /\ calls[p].ok
            /\ SaysYes(calls[a].arg)
            /\ calls[c].arg = calls[p].arg.text
        /\ \A a \in CallsOf("prompt commit") : a < c
    /\ \A a \in CallsOf("prompt commit") :
        SaysNo(calls[a].arg) =>
            /\ ~Called("git commit")
            /\ pc = "exited"
            /\ err = ErrNone
            /\ exitStatus = 0
            /\ repo = repoBefore \/ CalledOK("git add .")

C1_Witness ==
    /\ pc = "exited"
    /\ CalledOK("git commit")
    /\ \E a \in CallsOf("prompt commit") : calls[a].arg = <<"q">>
    /\ exitStatus = 0

\* C2: when the diff of the staged files is the empty string, generate fails
\* with "no changes detected in the staged files": no client is built, no
\* request is issued and no commit is invoked.
C2_EmptyDiffStops ==
    (CalledOK("git diff --staged") /\ loc.diff = EmptyString) =>
        /\ pc = "exited"
        /\ err = ErrNoStagedChanges
        /\ exitStatus = 1
        /\ ~Called("GetConfig")
        /\ ~Called("POST")
        /\ ~Called("git commit")

C2_Witness ==
    /\ pc = "exited"
    /\ CalledOK("git diff --staged")
    /\ loc.diff = EmptyString
    /\ CalledOK("git add .")
    /\ err = ErrNoStagedChanges

\* C3: no request is issued while the stored API key is empty or unset: the
\* construction of the client fails with "GROQ_APIKEY not set" and generate
\* ends with that error, without a request and without a commit.
KeyIsEmpty == loadConfig(file).err = ErrNone /\ StoredValue(file, "GROQ_APIKEY") = EmptyString

C3_NoRequestWithoutKey ==
    /\ \A p \in CallsOf("POST") :
        /\ ~KeyIsEmpty
        /\ calls[p].arg.request.apiKey # EmptyString
        /\ calls[p].arg.request.apiKey = StoredValue(file, "GROQ_APIKEY")
    /\ (Called("GetConfig") /\ KeyIsEmpty) =>
        /\ pc = "exited"
        /\ err = ErrKeyNotSet
        /\ exitStatus = 1
        /\ ~Called("POST")
        /\ ~Called("git commit")

C3_Witness ==
    /\ pc = "exited"
    /\ KeyIsEmpty
    /\ file.exists
    /\ Called("GetConfig")
    /\ err = ErrKeyNotSet

\* C10: ensure_staged with zero staged files and zero changed files fails with
\* "no changes detected" and neither prompts the user nor invokes stage-all.
C10_NoChangesNoPrompt ==
    (repoBefore.entries = <<>> /\ CalledOK("git status --porcelain")) =>
        /\ pc = "exited"
        /\ err = ErrNoChanges
        /\ exitStatus = 1
        /\ ~Called("prompt stage")
        /\ ~Called("git add .")
        /\ repo = repoBefore

C10_Witness ==
    /\ pc = "exited"
    /\ repoBefore.inside
    /\ repoBefore.entries = <<>>
    /\ CalledOK("git status --porcelain")
    /\ err = ErrNoChanges

\* C11: ensure_staged with zero staged files, at least one changed file and a
\* user response other than yes fails with "no staged files"; it invokes no
\* stage-all and the index is as it was.
NoneStagedSomeChanged ==
    /\ Len(GetStagedFiles(NameOnlyOutput(repoBefore))) = 0
    /\ Len(GetChangedFiles(PorcelainOutput(repoBefore))) > 0

C11_NegativeAnswerStagesNothing ==
    \A a \in CallsOf("prompt stage") :
        (calls[a].arg \notin {<<"y">>, <<"Y">>} /\ NoneStagedSomeChanged) =>
            /\ pc = "exited"
            /\ err = ErrNothingStaged
            /\ exitStatus = 1
            /\ ~Called("git add .")
            /\ ~Called("POST")
            /\ repo = repoBefore

C11_Witness ==
    /\ pc = "exited"
    /\ NoneStagedSomeChanged
    /\ \E a \in CallsOf("prompt stage") : calls[a].arg = <<"q">>
    /\ err = ErrNothingStaged
    /\ repo = repoBefore

\* Files were staged when the invocation started.
StagedOnEntry == SelectStaged(repoBefore.entries) # <<>>

\* The errors EnsureFilesAreStaged returns once it has found no staged file.
ErrorsOfStaging == {ErrGitStatus, ErrNoChanges, ErrNothingStaged, ErrStage}

\* C22: when at least one file is already staged, ensure_staged succeeds at
\* once: it does not list the changed files, does not prompt and does not
\* invoke stage-all, so what was not staged is not staged by the invocation.
C22_StagedOnEntrySkipsStaging ==
    (StagedOnEntry /\ CalledOK("git diff --name-only --cached")) =>
        /\ pc # "ensure_changed"
        /\ err \notin ErrorsOfStaging
        /\ ~Called("git status --porcelain")
        /\ ~Called("prompt stage")
        /\ ~Called("git add .")
        /\ \/ repo = repoBefore
           \/ CalledOK("git commit") /\ repo = GitCommitted(repoBefore)

C22_Witness ==
    /\ pc = "exited"
    /\ StagedOnEntry
    /\ \E n \in 1..Len(repoBefore.entries) : ~IsStaged(repoBefore.entries[n])
    /\ CalledOK("git commit")
    /\ repo = GitCommitted(repoBefore)
    /\ repo.entries # <<>>

\* EnsureFilesAreStaged has returned nil: runGenerate is at, or past, its own
\* call of GetStagedFiles.
EnsureSucceeded ==
    pc = "list" \/ Cardinality(CallsOf("git diff --name-only --cached")) >= 2

\* C23: with zero staged files, at least one changed file and the answer
\* yes, ensure_staged invokes stage-all exactly once, right after the prompt;
\* it succeeds when stage-all succeeds and fails with "error staging files"
\* when stage-all fails.  ensure_staged succeeds only when files were staged
\* on entry or a stage-all succeeded during the call.
C23_YesStagesOnce ==
    /\ \A a \in CallsOf("prompt stage") :
        (calls[a].arg \in {<<"y">>, <<"Y">>} /\ NoneStagedSomeChanged) =>
            IF a = Len(calls)
            THEN pc = "ensure_add"
            ELSE /\ CallsOf("git add .") = {a + 1}
                 /\ IF calls[a + 1].ok
                    THEN EnsureSucceeded /\ err \notin ErrorsOfStaging
                    ELSE /\ pc = "exited"
                         /\ err = ErrStage
                         /\ exitStatus = 1
                         /\ a + 1 = Len(calls)
                         /\ repo = repoBefore
    /\ Cardinality(CallsOf("git add .")) <= 1
    /\ \A d \in CallsOf("git add .") :
        d > 1 /\ calls[d - 1].op = "prompt stage"
    /\ EnsureSucceeded => (StagedOnEntry \/ CalledOK("git add ."))

C23_Witness ==
    /\ pc = "exited"
    /\ NoneStagedSomeChanged
    /\ \E a \in CallsOf("prompt stage") : calls[a].arg = <<"Y">>
    /\ CalledOK("git add .")
    /\ CalledOK("git commit")
    /\ exitStatus = 0

\* C24: when the working directory is not inside a repository, generate
\* fails with "not a Git repository" before it runs another git command,
\* prompts the user, reads the configuration or issues a request; the check
\* of the repository is the first call of every invocation.
C24_NotARepositoryStopsFirst ==
    /\ calls # <<>> => calls[1].op = "git rev-parse"
    /\ (~repoBefore.inside /\ Called("git rev-parse")) =>
        /\ Len(calls) = 1
        /\ ~calls[1].ok
        /\ pc = "exited"
        /\ err = ErrNotGitRepo
        /\ exitStatus = 1
        /\ repo = repoBefore
        /\ file = fileBefore

C24_Witness ==
    /\ pc = "exited"
    /\ ~repoBefore.inside
    /\ Len(calls) = 1
    /\ calls[1].op = "git rev-parse"
    /\ err = ErrNotGitRepo
    /\ exitStatus = 1

\* C27: provided every subprocess call and the request return, the generate
\* flow ends for every sequence of terminal input at the confirmation
\* prompt, the input that ends before an answer was read included.
C27_GenerateTerminates == (pc = "run") ~> (pc = "exited")

\* C13 as stated: one call of complete issues exactly one HTTP request
\* whatever the outcome, and one generate invocation sends at most one
\* completion request.
C13_ExactlyOneRequest ==
    /\ Cardinality(CallsOf("POST")) <= 1
    /\ \A p \in CallsOf("POST") : calls[p].arg.requests = 1

\* C13 as amended: one generate invocation calls complete at most once and
\* complete calls the HTTP client once.  Every request after the first one
\* follows a redirect the endpoint answered with; no request follows a 401,
\* another status, a failed exchange or a body that cannot be used.  A failure
\* ends the invocation with that error and a non-zero status, without a commit.
C13_NoRequestAfterFailure ==
    /\ Cardinality(CallsOf("POST")) <= 1
    /\ \A p \in CallsOf("POST") :
        LET r == calls[p].arg IN
        /\ r.requests \in 1..MaxRequests
        /\ r.redirects \in {r.requests - 1, r.requests}
        /\ r.redirects = r.requests => r.err = ErrRequest
        /\ r.err = ErrStatus => r.redirects = r.requests - 1
        /\ ~calls[p].ok =>
            /\ pc = "exited"
            /\ err = r.err
            /\ exitStatus = 1
            /\ p = Len(calls)

C13_Witness ==
    /\ pc = "exited"
    /\ \E p \in CallsOf("POST") :
        /\ calls[p].arg.err = ErrStatus
        /\ calls[p].arg.code = 401
        /\ calls[p].arg.requests = 1
        /\ calls[p].arg.redirects = 0
    /\ err = ErrStatus
    /\ exitStatus = 1

\* The errors generate can end with before it has issued a request.
ErrorsBeforeRequest ==
    {ErrNotGitRepo, ErrGitStatus, ErrNoChanges, ErrNothingStaged, ErrStage,
     ErrNoStagedChanges, ErrGetKey, ErrKeyNotSet, ErrGetPrompt}

\* C20: when a step of the generate flow fails, no later step is executed,
\* nothing is retried and the process exits with a non-zero status: a failed
\* call is the last call of the invocation, the flow is past its start only
\* while no error has occurred, and an invocation that ended with an error
\* has status 1 and has made no commit (and no request, when the error is one
\* of the steps before the request).
C20_ErrorsAreTerminal ==
    /\ \A i \in 1..Len(calls) :
        ~calls[i].ok =>
            /\ i = Len(calls)
            /\ pc = "exited"
            /\ err # ErrNone
            /\ exitStatus = 1
    /\ pc \notin {"idle", "exited"} => err = ErrNone
    /\ (pc = "exited" /\ err # ErrNone) =>
        /\ exitStatus = 1
        /\ ~CalledOK("git commit")
        /\ err \in ErrorsBeforeRequest => ~Called("POST")
        /\ err \in {ErrNotGitRepo, ErrGitStatus, ErrNoChanges, ErrNothingStaged, ErrStage}
            => ~Called("git diff --staged")
    /\ (pc = "exited" /\ err = ErrNone) => exitStatus = 0

C20_Witness ==
    /\ pc = "exited"
    /\ Len(calls) >= 3
    /\ calls[Len(calls)].op = "git diff --name-only --cached"
    /\ ~calls[Len(calls)].ok
    /\ CalledOK("git diff --name-only --cached")
    /\ err = ErrCommand
    /\ exitStatus = 1
    /\ ~Called("git diff --staged")

\* C19: invoked with the subcommand generate the tool behaves as it does with
\* no subcommand: the generate flow runs once, so one invocation performs at
\* most one completion request and at most one commit.
C19_GenerateRunsOnce ==
    /\ Cardinality(CallsOf("git rev-parse")) <= 1
    /\ Cardinality(CallsOf("POST")) <= 1
    /\ Cardinality(CallsOf("git commit")) <= 1

\* ---------------------------------------------------- claims: the client
Completions == CallsOf("GenerateCompletion")

\* C12: every response whose status is not 2xx makes complete fail with
\* "unexpected status code" and that status code, and return no text.
C12_Non2xxIsStatusError ==
    \A i \in Completions :
        LET r == calls[i].arg IN
        (r.resp.transportOK /\ r.resp.status \notin 200..299) =>
            /\ ~calls[i].ok
            /\ r.err = ErrStatus
            /\ r.code = r.resp.status
            /\ r.text = EmptyString

C12_Witness ==
    \E i \in Completions :
        LET r == calls[i].arg IN
        /\ r.resp.status = 401
        /\ r.resp.wellFormed
        /\ Len(r.resp.choices) > 0
        /\ r.resp.choices[1] # EmptyString
        /\ r.err = ErrStatus
        /\ r.code = 401

HasChoice(resp) == resp.transportOK /\ resp.wellFormed /\ Len(resp.choices) >= 1

\* C25 as stated: for every response with a 2xx status and a well-formed body
\* holding at least one choice, complete succeeds and returns the content of
\* the first choice.
C25_2xxFirstChoice ==
    \A i \in Completions :
        LET r == calls[i].arg IN
        (HasChoice(r.resp) /\ r.resp.status \in 200..299) =>
            /\ calls[i].ok
            /\ r.err = ErrNone
            /\ r.text = r.resp.choices[1]

\* C25 as amended: for every response with status 200 and a well-formed body
\* holding at least one choice, complete succeeds and returns the content of
\* the first choice, whatever the other choices hold; with another 2xx status
\* it fails with "unexpected status code" and returns no text.
C25_Status200FirstChoice ==
    \A i \in Completions :
        LET r == calls[i].arg IN
        HasChoice(r.resp) =>
            /\ r.resp.status = StatusOK =>
                /\ calls[i].ok
                /\ r.err = ErrNone
                /\ r.text = r.resp.choices[1]
            /\ r.resp.status \in 201..299 =>
                /\ ~calls[i].ok
                /\ r.err = ErrStatus
                /\ r.code = r.resp.status
                /\ r.text = EmptyString

C25_Witness ==
    \E i \in Completions :
        LET r == calls[i].arg IN
        /\ r.resp.status = StatusOK
        /\ r.resp.choices = << <<"m">>, <<"o">> >>
        /\ calls[i].ok
        /\ r.text = <<"m">>

\* ---------------------------------------------------- claims: the adapter
\* The labels of the recognized status codes.
StatusLabels ==
    {<<<<"M">>, "Modified">>, <<<<"A">>, "Added">>, <<<<"D">>, "Deleted">>,
     <<<<"R">>, "Renamed">>, <<<<"C">>, "Copied">>,
     <<<<"U">>, "Updated but unmerged">>, <<<<"?", "?">>, "Untracked">>}

\* C15: the translation maps M, A, D, R, C, U and ?? to their labels and every
\* other code, two-letter codes such as MM included, to Unknown.
C15_TranslationExactAndTotal ==
    \A i \in CallsOf("translateStatus") :
        LET r == calls[i].arg IN
        /\ \A p \in StatusLabels : r.status = p[1] => r.label = p[2]
        /\ (\A p \in StatusLabels : r.status # p[1]) => r.label = "Unknown"

C15_Witness ==
    \E i \in CallsOf("translateStatus") :
        /\ calls[i].arg.status = <<"M", "M">>
        /\ calls[i].arg.label = "Unknown"

\* What the fixed-width convention reads from one line of status output.
IsLong(line) == Len(line) >= 4

PairOf(line) ==
    [Path |-> TrimSpace(SubSeq(line, 4, Len(line))),
     Status |-> translateStatus(TrimSpace(SubSeq(line, 1, 2)))]

\* C16: when every line of the status output has at least 4 characters,
\* list_changed_files returns one pair per line, in order: the label of the
\* line's first two characters and the path from its fourth character on,
\* for the first line too and for codes that start with a space.
C16_OnePairPerLine ==
    \A i \in CallsOf("GetChangedFiles") :
        LET r == calls[i].arg IN
        (\A n \in 1..Len(r.lines) : IsLong(r.lines[n])) =>
            r.result = [n \in 1..Len(r.lines) |-> PairOf(r.lines[n])]

\* C17: list_changed_files skips the lines shorter than 4 characters, and
\* returns for the other lines what it returns when the short lines are absent.
C17_ShortLinesChangeNothing ==
    \A i \in CallsOf("GetChangedFiles") :
        LET r == calls[i].arg IN
        /\ calls[i].ok
        /\ Len(r.result) <= Len(SelectSeq(r.lines, IsLong))
        /\ r.result = GetChangedFiles(JoinLines(SelectSeq(r.lines, IsLong)))

IsNonEmpty(line) == line # EmptyString

\* C18: list_staged_files never returns an empty string; it returns the
\* non-empty lines of the output, in their original order.

C18_NonEmptyLinesInOrder ==
    \A i \in CallsOf("GetStagedFiles") :
        LET r == calls[i].arg IN
        /\ \A n \in 1..Len(r.result) : r.result[n] # EmptyString
        /\ r.result = SelectSeq(r.lines, IsNonEmpty)

\* ---------------------------------------------------- claims: the service
\* A prompt with every occurrence of the placeholder replaced by the diff.
RECURSIVE ReplacePlaceholder(_, _)
ReplacePlaceholder(prompt, diff) ==
    IF prompt = <<>> THEN <<>>
    ELSE (IF Head(prompt) = Placeholder THEN diff ELSE <<Head(prompt)>>)
         \o ReplacePlaceholder(Tail(prompt), diff)

HasPlaceholder(prompt) == \E n \in 1..Len(prompt) : prompt[n] = Placeholder

\* C21: when the configured COMMIT_PROMPT contains the placeholder {diff},
\* the prompt sent to the completion API has the placeholder replaced by the
\* staged diff.
C21_PlaceholderReplaced ==
    \A i \in CallsOf("Messages") :
        LET r == calls[i].arg IN
        HasPlaceholder(r.commitPrompt) =>
            /\ r.messages[1].Content = ReplacePlaceholder(r.commitPrompt, r.diff)
            /\ \A n \in 1..Len(r.messages) : ~HasPlaceholder(r.messages[n].Content)

BothFinished == \A p \in Procs : loc[p].pc \in {"done", "failed"}

\* C28: when two set invocations run concurrently, each a load followed by
\* a full rewrite, the file after both have ended is exactly what the
\* invocation that wrote last wrote: the snapshot it loaded with its one
\* field changed.
C28_LastWriterWins ==
    (BothFinished /\ calls # <<>>) =>
        LET last == loc[calls[Len(calls)].arg] IN
        /\ file.exists
        /\ file.wellFormed
        /\ file.json = MarshalConfig([last.config EXCEPT ![last.key] = last.value])

\* The invocation that just ended called config.SetConfig / config.GetConfig.
SetCalled ==
    pc = "exited" /\ argv.cmd = "setConfig" /\ argv.key # "" /\ argv.value # EmptyString

GetCalled == pc = "exited" /\ argv.cmd = "getConfig" /\ argv.key # ""

\* The file was present when the invocation started, and loadConfig fails on it.
WasCorrupt ==
    fileBefore.exists /\ (~Readable(fileBefore) \/ ~fileBefore.wellFormed)

\* C4: a successful set(key, value) followed by get(key), with no other write
\* in between, returns exactly that value.
C4_SetGetRoundTrip ==
    (GetCalled /\ err = ErrNone /\ lastSet.key = argv.key) => out = lastSet.value

\* C5 as stated: for a key outside the recognized set and every state of the
\* file, get and set fail with UnknownKey and the file is unchanged.
C5_UnknownKeyWhateverTheFile ==
    ((SetCalled \/ GetCalled) /\ argv.key \notin RecognizedKeys)
        => (err = ErrUnknownKey /\ file = fileBefore)

\* C5 as amended: for a key outside the recognized set, get and set fail with
\* UnknownKey when the file is absent or loads, and with the load error when
\* the file is present but cannot be read or parsed; in every case the
\* invocation exits non-zero and the file is unchanged.
C5_UnknownKeyAfterLoad ==
    ((SetCalled \/ GetCalled) /\ argv.key \notin RecognizedKeys)
        => /\ file = fileBefore
           /\ exitStatus = 1
           /\ err = IF ~WasCorrupt THEN ErrUnknownKey
                    ELSE IF ~Readable(fileBefore) THEN ErrRead ELSE ErrParse

C5_Witness ==
    /\ SetCalled
    /\ argv.key = "FOO"
    /\ ~fileBefore.exists
    /\ ~file.exists
    /\ err = ErrUnknownKey

\* C6: a successful set on a recognized key leaves the value of the other
\* recognized key as it was, and that value is the empty string when the file
\* was absent.
C6_SetChangesOneKey ==
    (SetCalled /\ err = ErrNone) =>
        \A k \in RecognizedKeys \ {argv.key} :
            /\ StoredValue(file, k) = StoredValue(fileBefore, k)
            /\ ~fileBefore.exists => file.json[k] = EmptyString

C6_Witness ==
    /\ SetCalled
    /\ err = ErrNone
    /\ argv.key = "COMMIT_PROMPT"
    /\ StoredValue(fileBefore, "GROQ_APIKEY") # EmptyString
    /\ StoredValue(file, "COMMIT_PROMPT") # StoredValue(fileBefore, "COMMIT_PROMPT")

\* C7: when the file is present but cannot be read or parsed, get and set on
\* a recognized key fail with a configuration error and the file is the same
\* after the call as before.
C7_CorruptFileIsAnError ==
    ((SetCalled \/ GetCalled) /\ argv.key \in RecognizedKeys /\ WasCorrupt)
        => /\ err \in {ErrRead, ErrParse}
           /\ exitStatus = 1
           /\ file = fileBefore

C7_Witness ==
    /\ SetCalled
    /\ argv.key \in RecognizedKeys
    /\ Readable(fileBefore)
    /\ Writable(fileBefore)
    /\ ~fileBefore.wellFormed
    /\ err = ErrParse

\* C8: after every successful set the file has owner-only read/write
\* permission, whether the set created it or it existed before.
C8_OwnerOnlyAfterSet ==
    (SetCalled /\ err = ErrNone) => file.mode = "0600"

\* C9: get on a recognized key returns the empty string and no error when the
\* file does not exist or the key was never set.
C9_UnsetIsEmpty ==
    (/\ GetCalled
     /\ argv.key \in RecognizedKeys
     /\ \/ ~fileBefore.exists
        \/ /\ ~WasCorrupt
           /\ fileBefore.json[argv.key] = EmptyString)
        => (err = ErrNone /\ out = EmptyString /\ exitStatus = 0)

C9_Witness ==
    /\ GetCalled
    /\ argv.key = "GROQ_APIKEY"
    /\ ~fileBefore.exists
    /\ err = ErrNone

====
